---- MODULE Spec2Model ----
(***************************************************************************)
(* Model of dfe_prng.hpp (SplitMix64, Xoshiro256StarStar) and of the      *)
(* example_prng_dieharder byte-dump program.                              *)
(*                                                                         *)
(* A uint64_t is a sequence of 8 bytes, least significant byte first, so  *)
(* that every operation keeps its 64-bit width: additions and             *)
(* multiplications drop the carry out of byte 8, shifts fill with zeros.  *)
(***************************************************************************)
EXTENDS Integers, Sequences, FiniteSets, TLC

VARIABLES
  seed,     \* generators: the seed both instances of each type were built with
  sm,       \* generators: the SplitMix64 instances
  xo,       \* generators: the Xoshiro256StarStar instances
  rot,      \* rotate_left: the argument, the amount and the results so far
  prog      \* example_prng_dieharder: the state of one run of main

vars == <<seed, sm, xo, rot, prog>>

\* ------------------------------------------------------------------------
\* uint64_t arithmetic
\* ------------------------------------------------------------------------

\* sizeof(uint64_t): the number of bytes of a word
WordBytes == 8

ByteIdx == 1..WordBytes

\* the values of a uint64_t
IsWord(w) == /\ DOMAIN w = ByteIdx
             /\ \A i \in ByteIdx : w[i] \in 0..255

\* UINT64_C(0)
Zero == <<0, 0, 0, 0, 0, 0, 0, 0>>

\* UINT64_MAX
AllOnes == <<255, 255, 255, 255, 255, 255, 255, 255>>

Pow2 == <<1, 2, 4, 8, 16, 32, 64, 128, 256>>

\* 2^r for 0 <= r <= 8
P2(r) == Pow2[r + 1]

RECURSIVE BitXor(_, _, _)
\* XOR of two n-bit naturals
BitXor(a, b, n) ==
  IF n = 0 THEN 0
  ELSE ((a + b) % 2) + 2 * BitXor(a \div 2, b \div 2, n - 1)

RECURSIVE BitOr(_, _, _)
\* OR of two n-bit naturals
BitOr(a, b, n) ==
  IF n = 0 THEN 0
  ELSE (IF a % 2 = 1 \/ b % 2 = 1 THEN 1 ELSE 0)
       + 2 * BitOr(a \div 2, b \div 2, n - 1)

\* XOR and OR of two 4-bit values, tabulated
XorNib == [a \in 0..15 |-> [b \in 0..15 |-> BitXor(a, b, 4)]]
OrNib == [a \in 0..15 |-> [b \in 0..15 |-> BitOr(a, b, 4)]]

XorByte(a, b) == 16 * XorNib[a \div 16][b \div 16] + XorNib[a % 16][b % 16]
OrByte(a, b) == 16 * OrNib[a \div 16][b \div 16] + OrNib[a % 16][b % 16]

\* a ^ b
Xor(a, b) ==
  << XorByte(a[1], b[1]), XorByte(a[2], b[2]), XorByte(a[3], b[3]),
     XorByte(a[4], b[4]), XorByte(a[5], b[5]), XorByte(a[6], b[6]),
     XorByte(a[7], b[7]), XorByte(a[8], b[8]) >>

\* a | b
Or(a, b) ==
  << OrByte(a[1], b[1]), OrByte(a[2], b[2]), OrByte(a[3], b[3]),
     OrByte(a[4], b[4]), OrByte(a[5], b[5]), OrByte(a[6], b[6]),
     OrByte(a[7], b[7]), OrByte(a[8], b[8]) >>

\* a >> k on uint64_t (logical), 0 <= k < 64: byte i of the result takes
\* the high bits of byte i + k \div 8 and the low bits of the byte above
\* it, the bytes above the word being zero
Shr(a, k) ==
  LET q == k \div 8
      lo == P2(k % 8)
      hi == P2(8 - (k % 8))
      p == a \o Zero
      B(i) == (p[i + q] \div lo) + (p[i + q + 1] % lo) * hi
  IN << B(1), B(2), B(3), B(4), B(5), B(6), B(7), B(8) >>

\* a << k on uint64_t, 0 <= k < 64: byte i of the result takes the low
\* bits of byte i - k \div 8 and the high bits of the byte below it, the
\* bytes below the word being zero
Shl(a, k) ==
  LET q == k \div 8
      lo == P2(k % 8)
      hi == P2(8 - (k % 8))
      p == Zero \o a
      B(i) == ((p[8 + i - q] * lo) % 256) + (p[7 + i - q] \div hi)
  IN << B(1), B(2), B(3), B(4), B(5), B(6), B(7), B(8) >>

\* a + b on uint64_t, byte by byte with the carry; the carry out of the
\* top byte is dropped
Add(a, b) ==
  LET s1 == a[1] + b[1]
      s2 == (s1 \div 256) + a[2] + b[2]
      s3 == (s2 \div 256) + a[3] + b[3]
      s4 == (s3 \div 256) + a[4] + b[4]
      s5 == (s4 \div 256) + a[5] + b[5]
      s6 == (s5 \div 256) + a[6] + b[6]
      s7 == (s6 \div 256) + a[7] + b[7]
      s8 == (s7 \div 256) + a[8] + b[8]
  IN << s1 % 256, s2 % 256, s3 % 256, s4 % 256,
        s5 % 256, s6 % 256, s7 % 256, s8 % 256 >>

\* a * b on uint64_t: the low 64 bits of the product, column by column
\* with the carry
Mul(a, b) ==
  LET s1 == a[1] * b[1]
      s2 == (s1 \div 256) + a[1] * b[2] + a[2] * b[1]
      s3 == (s2 \div 256) + a[1] * b[3] + a[2] * b[2] + a[3] * b[1]
      s4 == (s3 \div 256) + a[1] * b[4] + a[2] * b[3] + a[3] * b[2] + a[4] * b[1]
      s5 == (s4 \div 256) + a[1] * b[5] + a[2] * b[4] + a[3] * b[3] + a[4] * b[2] + a[5] * b[1]
      s6 == (s5 \div 256) + a[1] * b[6] + a[2] * b[5] + a[3] * b[4] + a[4] * b[3] + a[5] * b[2] + a[6] * b[1]
      s7 == (s6 \div 256) + a[1] * b[7] + a[2] * b[6] + a[3] * b[5] + a[4] * b[4] + a[5] * b[3] + a[6] * b[2] + a[7] * b[1]
      s8 == (s7 \div 256) + a[1] * b[8] + a[2] * b[7] + a[3] * b[6] + a[4] * b[5] + a[5] * b[4] + a[6] * b[3] + a[7] * b[2] + a[8] * b[1]
  IN << s1 % 256, s2 % 256, s3 % 256, s4 % 256,
        s5 % 256, s6 % 256, s7 % 256, s8 % 256 >>

\* a natural below 2^31 as a uint64_t
W(v) ==
  << v % 256, (v \div 256) % 256, (v \div 65536) % 256,
     (v \div 16777216) % 256, 0, 0, 0, 0 >>

\* ------------------------------------------------------------------------
\* SplitMix64
\* ------------------------------------------------------------------------

\* 0x9e3779b97f4a7c15
GOLDEN == <<21, 124, 74, 127, 185, 121, 55, 158>>
\* 0xbf58476d1ce4e5b9
MIX1 == <<185, 229, 228, 28, 109, 71, 88, 191>>
\* 0x94d049bb133111eb
MIX2 == <<235, 17, 49, 19, 187, 73, 208, 148>>

\* SplitMix64(seed): m_state(seed)
SplitMix64(s) == s

\* the three avalanche rounds of operator() on z
Avalanche(z) ==
  LET z1 == Mul(Xor(z, Shr(z, 30)), MIX1)
      z2 == Mul(Xor(z1, Shr(z1, 27)), MIX2)
  IN Xor(z2, Shr(z2, 31))

\* a variant that mixes m_state + c without storing the sum
SplitMix64_stale(s) ==
  [state |-> s, ret |-> Avalanche(Add(s, GOLDEN))]

\* a variant that mixes the state as it was before the addition
SplitMix64_postinc(s) ==
  [state |-> Add(s, GOLDEN), ret |-> Avalanche(s)]

\* operator(): the state after the call and the value returned
SplitMix64_call(s) ==
  LET z0 == Add(s, GOLDEN)
      z1 == Mul(Xor(z0, Shr(z0, 30)), MIX1)
      z2 == Mul(Xor(z1, Shr(z1, 27)), MIX2)
  IN [state |-> z0, ret |-> Xor(z2, Shr(z2, 31))]

\* ------------------------------------------------------------------------
\* Xoshiro256StarStar
\* ------------------------------------------------------------------------

\* a variant whose right shift is one bit short
rotate_left_short(x, k) == Or(Shl(x, k), Shr(x, 63 - k))

\* rotate_left(x, k): (x << k) | (x >> (64 - k))
rotate_left(x, k) == Or(Shl(x, k), Shr(x, 64 - k))

\* a variant that stops after the member initializer {0, 0, 0, 0}
Xoshiro256StarStar_unseeded(s) ==
  (0 :> Zero) @@ (1 :> Zero) @@ (2 :> Zero) @@ (3 :> Zero)

\* a variant that seeds a new SplitMix64 for every word
Xoshiro256StarStar_reseeded(s) ==
  [j \in 0..3 |-> SplitMix64_call(SplitMix64(s)).ret]

\* Xoshiro256StarStar(seed): m_state[0..3] filled from a SplitMix64 seq(seed)
Xoshiro256StarStar(s) ==
  LET c0 == SplitMix64_call(SplitMix64(s))
      c1 == SplitMix64_call(c0.state)
      c2 == SplitMix64_call(c1.state)
      c3 == SplitMix64_call(c2.state)
  IN (0 :> c0.ret) @@ (1 :> c1.ret) @@ (2 :> c2.ret) @@ (3 :> c3.ret)

\* a variant that computes the result after the state update
Xoshiro256StarStar_late(s) ==
  LET t == Shl(s[1], 17)
      a == [s EXCEPT ![2] = Xor(s[2], s[0])]
      b == [a EXCEPT ![3] = Xor(a[3], a[1])]
      c == [b EXCEPT ![1] = Xor(b[1], b[2])]
      d == [c EXCEPT ![0] = Xor(c[0], c[3])]
      e == [d EXCEPT ![2] = Xor(d[2], t)]
      f == [e EXCEPT ![3] = rotate_left(e[3], 45)]
  IN [state |-> f, ret |-> Mul(rotate_left(Mul(f[1], W(5)), 7), W(9))]

\* a variant that updates a copy of m_state and drops it
Xoshiro256StarStar_const(s) ==
  [state |-> s, ret |-> Mul(rotate_left(Mul(s[1], W(5)), 7), W(9))]

\* operator(): the state after the call and the value returned
Xoshiro256StarStar_call(s) ==
  LET z == Mul(rotate_left(Mul(s[1], W(5)), 7), W(9))
      t == Shl(s[1], 17)
      a == [s EXCEPT ![2] = Xor(s[2], s[0])]
      b == [a EXCEPT ![3] = Xor(a[3], a[1])]
      c == [b EXCEPT ![1] = Xor(b[1], b[2])]
      d == [c EXCEPT ![0] = Xor(c[0], c[3])]
      e == [d EXCEPT ![2] = Xor(d[2], t)]
      f == [e EXCEPT ![3] = rotate_left(e[3], 45)]
  IN [state |-> f, ret |-> z]

\* ------------------------------------------------------------------------
\* Two instances of each generator, stepped in any order
\* ------------------------------------------------------------------------

\* calls made on one instance
MaxCalls == 4

\* the instances of each generator type
Inst == {1, 2}

\* 0xffffffffffffffff - k * 0x9e3779b97f4a7c15 + 1: the seed whose k-th
\* SplitMix64 state is zero
NegGolden(k) == Add(Xor(Mul(W(k), GOLDEN), AllOnes), W(1))

Seeds == {Zero, W(123), AllOnes, NegGolden(1), NegGolden(2), NegGolden(4)}

\* an instance: its member m_state, and the values its calls returned
NewInst(st) == [state |-> st, calls |-> 0, out |-> << >>]

Called(g, r) ==
  [state |-> r.state, calls |-> g.calls + 1, out |-> Append(g.out, r.ret)]

GenIdle == /\ seed = Zero
           /\ sm = << >>
           /\ xo = << >>
RotIdle == rot = << >>
ProgIdle == prog = << >>

GenInit ==
  /\ seed \in Seeds
  /\ sm = [i \in Inst |-> NewInst(SplitMix64(seed))]
  /\ xo = [i \in Inst |-> NewInst(Xoshiro256StarStar(seed))]
  /\ RotIdle
  /\ ProgIdle

\* a variant whose m_state is one static member shared by the instances
SMNext_static(i) ==
  /\ sm[i].calls < MaxCalls
  /\ LET r == SplitMix64_call(sm[i].state)
     IN sm' = [k \in Inst |-> IF k = i THEN Called(sm[i], r)
                                       ELSE [sm[k] EXCEPT !.state = r.state]]
  /\ UNCHANGED <<seed, xo, rot, prog>>

\* rng() on SplitMix64 instance i
SMNext(i) ==
  /\ sm[i].calls < MaxCalls
  /\ sm' = [sm EXCEPT ![i] = Called(sm[i], SplitMix64_call(sm[i].state))]
  /\ UNCHANGED <<seed, xo, rot, prog>>

\* rng() on Xoshiro256StarStar instance i
XoNext(i) ==
  /\ xo[i].calls < MaxCalls
  /\ xo' = [xo EXCEPT ![i] = Called(xo[i], Xoshiro256StarStar_call(xo[i].state))]
  /\ UNCHANGED <<seed, sm, rot, prog>>

\* instance j becomes a copy of instance i (implicit copy constructor)
SMCopy(i, j) ==
  /\ i # j
  /\ sm' = [sm EXCEPT ![j] = sm[i]]
  /\ UNCHANGED <<seed, xo, rot, prog>>

XoCopy(i, j) ==
  /\ i # j
  /\ xo' = [xo EXCEPT ![j] = xo[i]]
  /\ UNCHANGED <<seed, sm, rot, prog>>

GenNext ==
  \/ \E i \in Inst : SMNext(i)
  \/ \E i \in Inst : XoNext(i)
  \/ \E i, j \in Inst : SMCopy(i, j)
  \/ \E i, j \in Inst : XoCopy(i, j)

Spec == GenInit /\ [][GenNext]_vars

\* ------------------------------------------------------------------------
\* rotate_left applied twice: by k, then by 64 - k
\* ------------------------------------------------------------------------

\* 0x8000000000000000
TopBit == <<0, 0, 0, 0, 0, 0, 0, 128>>

RotInputs == {Zero, AllOnes, W(1), W(123), TopBit, GOLDEN, MIX1}

\* the rotation amounts rotate_left is defined for
RotAmounts == 1..63

RotInit ==
  /\ \E x \in RotInputs, k \in RotAmounts :
       rot = [pc |-> "start", x |-> x, k |-> k, y |-> Zero, z |-> Zero]
  /\ GenIdle
  /\ ProgIdle

\* y = rotate_left(x, k)
RotFirst ==
  /\ rot.pc = "start"
  /\ rot' = [rot EXCEPT !.pc = "rotated", !.y = rotate_left(rot.x, rot.k)]
  /\ UNCHANGED <<seed, sm, xo, prog>>

\* z = rotate_left(y, 64 - k)
RotBack ==
  /\ rot.pc = "rotated"
  /\ rot' = [rot EXCEPT !.pc = "done", !.z = rotate_left(rot.y, 64 - rot.k)]
  /\ UNCHANGED <<seed, sm, xo, prog>>

RotNext == RotFirst \/ RotBack

SpecRot == RotInit /\ [][RotNext]_vars

\* ------------------------------------------------------------------------
\* example_prng_dieharder
\* ------------------------------------------------------------------------

\* static constexpr uint64_t block_size
block_size == 1024

\* blocks one run writes before the model stops following it
MaxBlocks == 129

RECURSIVE LtFrom(_, _, _)
\* a < b on the bytes i..1, the bytes above i being equal
LtFrom(a, b, i) ==
  IF i = 0 THEN FALSE
  ELSE IF a[i] # b[i] THEN a[i] < b[i]
  ELSE LtFrom(a, b, i - 1)

\* a < b on uint64_t
Lt(a, b) == LtFrom(a, b, WordBytes)

\* the value of a digit character, 99 for any other character
DigitVal(c) ==
  CASE c = "0" -> 0 [] c = "1" -> 1 [] c = "2" -> 2 [] c = "3" -> 3
    [] c = "4" -> 4 [] c = "5" -> 5 [] c = "6" -> 6 [] c = "7" -> 7
    [] c = "8" -> 8 [] c = "9" -> 9
    [] c \in {"a", "A"} -> 10 [] c \in {"b", "B"} -> 11
    [] c \in {"c", "C"} -> 12 [] c \in {"d", "D"} -> 13
    [] c \in {"e", "E"} -> 14 [] c \in {"f", "F"} -> 15
    [] OTHER -> 99

\* a * m + c for a uint64_t a and m, c < 256: the eight bytes of the
\* result, followed by the carry out of the top byte
MulAdd(a, m, c) ==
  LET s1 == a[1] * m + c
      s2 == (s1 \div 256) + a[2] * m
      s3 == (s2 \div 256) + a[3] * m
      s4 == (s3 \div 256) + a[4] * m
      s5 == (s4 \div 256) + a[5] * m
      s6 == (s5 \div 256) + a[6] * m
      s7 == (s6 \div 256) + a[7] * m
      s8 == (s7 \div 256) + a[8] * m
  IN << s1 % 256, s2 % 256, s3 % 256, s4 % 256,
        s5 % 256, s6 % 256, s7 % 256, s8 % 256, s8 \div 256 >>

RECURSIVE Digits(_, _, _, _, _)
\* strtoull's digit loop from position i: the value so far, whether it
\* overflowed, and the position of the first character not converted
\* (the test r = r has the digit added before the next one is read)
Digits(str, i, base, acc, over) ==
  IF i > Len(str) \/ DigitVal(str[i]) >= base
  THEN [val |-> acc, over |-> over, end |-> i]
  ELSE LET r == MulAdd(acc, base, DigitVal(str[i]))
           o == over \/ r[WordBytes + 1] # 0
       IN IF r = r /\ o = o
          THEN Digits(str, i + 1, base, SubSeq(r, 1, WordBytes), o)
          ELSE [val |-> acc, over |-> over, end |-> i]

RECURSIVE SkipSpace(_, _)
SkipSpace(str, i) ==
  IF i <= Len(str) /\ str[i] = " " THEN SkipSpace(str, i + 1) ELSE i

\* strtoull(str, nullptr, 0): the value, and whether the whole of a
\* non-empty number was converted
strtoull(str) ==
  LET i0 == SkipSpace(str, 1)
      neg == i0 <= Len(str) /\ str[i0] = "-"
      i1 == IF i0 <= Len(str) /\ str[i0] \in {"+", "-"} THEN i0 + 1 ELSE i0
      hex == /\ i1 + 2 <= Len(str)
             /\ str[i1] = "0"
             /\ str[i1 + 1] \in {"x", "X"}
             /\ DigitVal(str[i1 + 2]) < 16
      base == IF hex THEN 16
              ELSE IF i1 <= Len(str) /\ str[i1] = "0" THEN 8 ELSE 10
      i2 == IF hex THEN i1 + 2 ELSE i1
      d == Digits(str, i2, base, Zero, FALSE)
      some == d.end > i2
      val == IF ~some THEN Zero
             ELSE IF d.over THEN AllOnes
             ELSE IF neg THEN Add(Xor(d.val, AllOnes), W(1))
             ELSE d.val
  IN [val |-> val, whole |-> some /\ d.end = Len(str) + 1]

\* static RngRegistryEntry registry[]
registry ==
  << [name |-> "splitmix64", func |-> "SplitMix64"],
     [name |-> "xoshiro256**", func |-> "Xoshiro256StarStar"] >>

\* the entries whose name is rng, in registry order
Matching(rng) ==
  SelectSeq(registry, LAMBDA entry : entry.name = rng)

\* Rng rng(seed)
RngNew(func, s) ==
  IF func = "SplitMix64" THEN SplitMix64(s) ELSE Xoshiro256StarStar(s)

\* rng()
RngCall(func, g) ==
  IF func = "SplitMix64" THEN SplitMix64_call(g)
  ELSE Xoshiro256StarStar_call(g)

RECURSIVE FillBlock(_, _, _)
\* for (i = 0; i < n; ++i) data[i] = rng(): the rng after the n calls. The
\* calls are made in order, an eighth of them at a time; the test
\* a = a /\ ... has each part evaluated before the next one starts.
FillBlock(func, g, n) ==
  IF n = 0 THEN g
  ELSE IF n < 8
  THEN LET a == RngCall(func, g).state
       IN IF a = a THEN FillBlock(func, a, n - 1) ELSE g
  ELSE LET q == n \div 8
           a == FillBlock(func, g, q)
           b == FillBlock(func, a, q)
           c == FillBlock(func, b, q)
           d == FillBlock(func, c, q)
           e == FillBlock(func, d, q)
           f == FillBlock(func, e, q)
           h == FillBlock(func, f, q)
       IN IF a = a /\ b = b /\ c = c /\ d = d /\ e = e /\ f = f /\ h = h
          THEN FillBlock(func, h, n - 7 * q)
          ELSE g

\* a variant that takes the argument as kibibytes
BytesRequested_kib(n) == Mul(W(1024), n)

\* 1024 * 1024 * strtoull(argv[2], nullptr, 0)
BytesRequested(n) == Mul(W(1024 * 1024), n)

\* sizeof(uint64_t) * block_size
BlockBytes == W(WordBytes * block_size)

\* the command lines: argv[1..argc-1], numbers spelled character by
\* character
CommandLines ==
  { << >>,
    << "splitmix64" >>,
    << "splitmix64", <<"0">> >>,
    << "splitmix64", <<"1">> >>,
    << "splitmix64", <<"z", "z">> >>,
    << "splitmix64", <<"1">>, <<"1", "2", "3">>, <<"4">> >>,
    << "xoshiro256**", << >> >>,
    << "xoshiro256**", <<"0">>, <<"0", "1", "7">> >>,
    << "xoshiro256**", <<"1">>, <<"0", "x", "7", "b">> >>,
    << "splitmix64", <<"-", "1">> >>,
    << "xoshiro256**",
       <<"0", "x", "1", "0", "0", "0", "0", "0", "0", "0", "0", "0", "0", "0">>,
       <<"9", "9", "9", "9", "9", "9", "9", "9", "9", "9",
         "9", "9", "9", "9", "9", "9", "9", "9", "9", "9", "9">> >>,
    << "xoshiro256", <<"1">> >>,
    << "", <<"1">>, <<"1">> >>,
    << "SplitMix64", <<"0">> >> }

\* argc
Argc(args) == Len(args) + 1

ProgInit ==
  /\ \E args \in CommandLines :
       prog = [pc |-> "start", args |-> args, status |-> "none",
               err |-> << >>, func |-> "", seed |-> Zero, bytes |-> Zero,
               rng |-> << >>, written |-> Zero, blocks |-> 0, nout |-> 0]
  /\ GenIdle
  /\ RotIdle

\* (argc < 3) or (4 < argc): usage on stderr, EXIT_FAILURE
MainUsage ==
  /\ prog.pc = "start"
  /\ Argc(prog.args) < 3 \/ 4 < Argc(prog.args)
  /\ prog' = [prog EXCEPT !.pc = "exit", !.err = << "usage" >>,
                          !.status = "EXIT_FAILURE"]
  /\ UNCHANGED <<seed, sm, xo, rot>>

\* the seed and the byte count main reads from the command line
ArgSeed(args) ==
  IF Argc(args) = 4 THEN strtoull(args[3]).val
  ELSE <<210, 2, 150, 73, 0, 0, 0, 0>>    \* 1234567890

ArgBytes(args) == BytesRequested(strtoull(args[2]).val)

\* an entry matches: rng, seed and bytes on stderr, then entry.func up to
\* its loop
MainRun ==
  /\ prog.pc = "start"
  /\ ~(Argc(prog.args) < 3 \/ 4 < Argc(prog.args))
  /\ Matching(prog.args[1]) # << >>
  /\ LET entry == Head(Matching(prog.args[1]))
     IN prog' = [prog EXCEPT !.pc = "write",
                             !.err = << "rng", "seed", "bytes" >>,
                             !.func = entry.func,
                             !.seed = ArgSeed(prog.args),
                             !.bytes = ArgBytes(prog.args),
                             !.rng = RngNew(entry.func, ArgSeed(prog.args)),
                             !.written = Zero]
  /\ UNCHANGED <<seed, sm, xo, rot>>

\* no entry matches: "unknown rng" on stderr, EXIT_SUCCESS
MainUnknown ==
  /\ prog.pc = "start"
  /\ ~(Argc(prog.args) < 3 \/ 4 < Argc(prog.args))
  /\ Matching(prog.args[1]) = << >>
  /\ prog' = [prog EXCEPT !.pc = "exit", !.err = << "unknown rng" >>,
                          !.seed = ArgSeed(prog.args),
                          !.bytes = ArgBytes(prog.args),
                          !.status = "EXIT_SUCCESS"]
  /\ UNCHANGED <<seed, sm, xo, rot>>

\* one turn of while (written < bytes): a block generated and written
WriteBlock ==
  /\ prog.pc = "write"
  /\ Lt(prog.written, prog.bytes)
  /\ prog.blocks < MaxBlocks
  /\ prog' = [prog EXCEPT !.rng = FillBlock(prog.func, prog.rng, block_size),
                          !.nout = prog.nout + block_size,
                          !.blocks = prog.blocks + 1,
                          !.written = Add(prog.written, BlockBytes)]
  /\ UNCHANGED <<seed, sm, xo, rot>>

\* the loop ends, entry.func returns, main returns EXIT_SUCCESS
WriteReturn ==
  /\ prog.pc = "write"
  /\ ~Lt(prog.written, prog.bytes)
  /\ prog' = [prog EXCEPT !.pc = "exit", !.status = "EXIT_SUCCESS"]
  /\ UNCHANGED <<seed, sm, xo, rot>>

ProgNext ==
  \/ MainUsage
  \/ MainRun
  \/ MainUnknown
  \/ WriteBlock
  \/ WriteReturn

SpecProg == ProgInit /\ [][ProgNext]_vars

\* ------------------------------------------------------------------------
\* Properties of the generators
\* ------------------------------------------------------------------------

Last(q) == q[Len(q)]

\* the state with every word zero
AllZeroState == [j \in 0..3 |-> Zero]

\* C1: a Xoshiro256StarStar on which no call was made yet holds, in
\* m_state[0..3], the 1st..4th values returned by a SplitMix64 built with
\* the same seed.
C1_SeedExpansion ==
  \A i, j \in Inst :
    (xo[i].calls = 0 /\ sm[j].calls >= 4) =>
      \A k \in 0..3 : xo[i].state[k] = sm[j].out[k + 1]

\* seed 123: the SplitMix64 has returned four values and the fresh
\* Xoshiro256StarStar holds 13032462758197477675 in m_state[0]
C1_Witness ==
  /\ seed = W(123)
  /\ xo[1].calls = 0
  /\ sm[2].calls = 4
  /\ xo[1].state[0] = <<43, 65, 222, 98, 212, 155, 220, 180>>

\* C2: a SplitMix64 call stores (s + 0x9e3779b97f4a7c15) mod 2^64 and
\* returns the three avalanche rounds of that stored value; after n calls
\* the state is (seed + n * 0x9e3779b97f4a7c15) mod 2^64.
C2_SplitMixStep ==
  /\ [](\A i \in Inst :
          sm[i].state = Add(seed, Mul(W(sm[i].calls), GOLDEN)))
  /\ [][\A i \in Inst :
          SMNext(i) =>
            /\ sm'[i].state = Add(sm[i].state, GOLDEN)
            /\ Last(sm'[i].out) = Avalanche(sm'[i].state)]_vars

\* seed 2^64 - 1: the addition wraps, the state after one call is
\* 0x9e3779b97f4a7c14; seed -0x9e37...15 gives state 0 and value 0
C2_Witness ==
  /\ seed = AllOnes
  /\ sm[1].calls = 1
  /\ sm[1].state = <<20, 124, 74, 127, 185, 121, 55, 158>>
  /\ sm[2].calls = MaxCalls

\* C3: a Xoshiro256StarStar call returns rotate_left(s1 * 5, 7) * 9 of the
\* s1 it found, and leaves (s0^s3^s1, s1^s2^s0, s2^s0^(s1 << 17),
\* rotate_left(s3^s1, 45)).
C3_XoshiroStep ==
  [][\A i \in Inst :
       XoNext(i) =>
         LET s == xo[i].state
         IN /\ Last(xo'[i].out) = Mul(rotate_left(Mul(s[1], W(5)), 7), W(9))
            /\ xo'[i].state[0] = Xor(Xor(s[0], s[3]), s[1])
            /\ xo'[i].state[1] = Xor(Xor(s[1], s[2]), s[0])
            /\ xo'[i].state[2] = Xor(Xor(s[2], s[0]), Shl(s[1], 17))
            /\ xo'[i].state[3] = rotate_left(Xor(s[3], s[1]), 45)]_vars

\* seed 123: the first value returned is 3628370374969813497
C3_Witness ==
  /\ seed = W(123)
  /\ xo[1].calls = 2
  /\ xo[1].out[1] = <<249, 105, 160, 209, 161, 143, 90, 50>>

\* C4: two instances of one type built from the same seed, or one copied
\* from the other, that were called equally often hold the same state and
\* returned the same values; a call on one instance leaves every other
\* instance as it was.
C4_Determinism ==
  /\ [](\A i, j \in Inst :
          /\ sm[i].calls = sm[j].calls => sm[i] = sm[j]
          /\ xo[i].calls = xo[j].calls => xo[i] = xo[j])
  /\ [][\A i \in Inst :
          /\ SMNext(i) => (xo' = xo /\ \A j \in Inst \ {i} : sm'[j] = sm[j])
          /\ XoNext(i) => (sm' = sm /\ \A j \in Inst \ {i} : xo'[j] = xo[j])]_vars

\* both instances of each type were called, one of them ahead of the other
C4_Witness ==
  /\ sm[1].calls = 2 /\ sm[2].calls = 3
  /\ xo[1].calls = 3 /\ xo[2].calls = 1

C7_NeverAllZero ==
  \A i \in Inst : xo[i].state # AllZeroState

\* the seed that makes the first SplitMix64 value zero: m_state[0] is zero
\* on the fresh instance, and the other instance was called
C7_Witness ==
  /\ seed = NegGolden(1)
  /\ xo[1].calls = 0
  /\ xo[1].state[0] = Zero
  /\ xo[2].calls = MaxCalls

\* C10: every call changes the state of the instance it is made on and
\* returns a 64-bit value.
C10_AlwaysAdvances ==
  [][\A i \in Inst :
       /\ SMNext(i) => /\ sm'[i].state # sm[i].state
                       /\ IsWord(sm'[i].state)
                       /\ IsWord(Last(sm'[i].out))
       /\ XoNext(i) => /\ xo'[i].state # xo[i].state
                       /\ \A k \in 0..3 : IsWord(xo'[i].state[k])
                       /\ IsWord(Last(xo'[i].out))]_vars

C10_Witness ==
  /\ sm[1].calls = MaxCalls
  /\ xo[1].calls = MaxCalls
  /\ sm[2].calls = 0
  /\ xo[2].calls = 0

\* ------------------------------------------------------------------------
\* Properties of rotate_left
\* ------------------------------------------------------------------------

\* C9: rotate_left(rotate_left(x, k), 64 - k) = x for every k with
\* 0 < k < 64.
C9_RotateRoundTrip ==
  rot.pc = "done" => rot.z = rot.x

\* 0x9e3779b97f4a7c15 rotated by 45 and back by 19
C9_Witness ==
  /\ rot.pc = "done"
  /\ rot.x = GOLDEN
  /\ rot.k = 45
  /\ rot.y # rot.x
  /\ rot.z = GOLDEN

\* ------------------------------------------------------------------------
\* Properties of example_prng_dieharder
\* ------------------------------------------------------------------------

RegisteredNames == {registry[e].name : e \in DOMAIN registry}

\* the command line lacks an argument, has one too many, spells a number
\* that strtoull does not convert as a whole, or names no registered rng
BadArguments(args) ==
  IF Argc(args) < 3 \/ 4 < Argc(args) THEN TRUE
  ELSE \/ args[1] \notin RegisteredNames
       \/ ~strtoull(args[2]).whole
       \/ Argc(args) = 4 /\ ~strtoull(args[3]).whole

\* C6: main returns EXIT_SUCCESS only when a registered name was given and
\* the generation completed; with bad arguments it prints a diagnostic,
\* writes no generator output and returns an error status.
C6_ExitStatus ==
  prog.pc = "exit" =>
    /\ prog.status = "EXIT_SUCCESS" =>
         /\ prog.args[1] \in RegisteredNames
         /\ prog.func # ""
         /\ ~Lt(prog.written, prog.bytes)
    /\ BadArguments(prog.args) =>
         /\ prog.status = "EXIT_FAILURE"
         /\ prog.err # << >>
         /\ prog.nout = 0

====
